---- MODULE Spec2Model ----
(***************************************************************************)
(* karanofetch.ts, src/mod.ts: class Fetcher and assertHasAllParams.       *)
(*                                                                         *)
(* Strings are sequences of one-character strings, so that                 *)
(* String.prototype.includes / replace and the regular expression of       *)
(* assertHasAllParams are computed on characters as the code computes      *)
(* them.  A JavaScript object with string keys is a sequence of            *)
(* <<key, value>> pairs in insertion order (the order Object.entries       *)
(* yields).  Names and values are drawn from letters and digits, for which *)
(* the URL setters' percent-encoding and the "$" patterns of               *)
(* String.prototype.replace change nothing, and from names that are not    *)
(* properties of Object.prototype.                                         *)
(***************************************************************************)
EXTENDS Integers, Sequences, FiniteSets, TLC

VARIABLES init, bound, invs, calls

vars == <<init, bound, invs, calls>>

(***************************************************************************)
(* Bounds of the model.                                                    *)
(***************************************************************************)
MaxBound == 2          \* bound functions obtained from fetch(endpoint, method)
MaxInvocations == 2    \* invocations of bound functions
MaxKeys == 2           \* keys of one param argument
MaxBoundAsync == 1     \* bound functions, where the transport settles

\* JavaScript values are tagged records: undefined, null, objects (ordered
\* key/value pairs), strings (character sequences), symbols, errors.
Undefined == [t |-> "undefined"]
Null == [t |-> "null"]
Object(entries) == [t |-> "object", v |-> entries]
String(chars) == [t |-> "string", v |-> chars]
Number(n) == [t |-> "number", v |-> n]
Symbol == [t |-> "symbol"]
Error(name, message) == [t |-> "error", name |-> name, message |-> message]

(***************************************************************************)
(* Character strings.                                                      *)
(***************************************************************************)
Range(s) == {s[i] : i \in DOMAIN s}

Slice(s, from, to) == [i \in 1..(to - from + 1) |-> s[from + i - 1]]

\* true iff t occurs in s starting at position i
OccursAt(s, t, i) ==
  /\ i >= 1
  /\ i + Len(t) - 1 <= Len(s)
  /\ \A j \in 1..Len(t) : s[i + j - 1] = t[j]

\* String.prototype.includes
Includes(s, t) == \E i \in 1..(Len(s) + 1) : OccursAt(s, t, i)

\* String.prototype.indexOf, 1-based; 0 when t does not occur
IndexOf(s, t) ==
  IF Includes(s, t)
  THEN CHOOSE i \in 1..(Len(s) + 1) :
         /\ OccursAt(s, t, i)
         /\ \A j \in 1..(i - 1) : ~OccursAt(s, t, j)
  ELSE 0

\* String.prototype.replace(t, r) with a string pattern: the first
\* occurrence of t only
Replace(s, t, r) ==
  LET i == IndexOf(s, t)
  IN IF i = 0 THEN s
     ELSE Slice(s, 1, i - 1) \o r \o Slice(s, i + Len(t), Len(s))

Digit == <<"0", "1", "2", "3", "4", "5", "6", "7", "8", "9">>

\* `${n}` of a non-negative integer
RECURSIVE NumberToString(_)
NumberToString(n) ==
  IF n < 10 THEN <<Digit[n + 1]>>
  ELSE NumberToString(n \div 10) \o <<Digit[(n % 10) + 1]>>

(***************************************************************************)
(* Objects: sequences of <<key, value>> pairs with distinct keys.          *)
(***************************************************************************)
EmptyObject == <<>>

Keys(obj) == {obj[i][1] : i \in DOMAIN obj}

\* key in obj
HasKey(obj, key) == \E i \in DOMAIN obj : obj[i][1] = key

Get(obj, key) == obj[CHOOSE i \in DOMAIN obj : obj[i][1] = key][2]

(***************************************************************************)
(* assertHasAllParams (src/mod.ts 14-26).                                  *)
(***************************************************************************)
\* last position of the maximal run of characters other than "/" that
\* starts right after position i
RECURSIVE RunEnd(_, _)
RunEnd(s, i) ==
  IF i + 1 <= Len(s) /\ s[i + 1] # "/" THEN RunEnd(s, i + 1) ELSE i

\* endpoint.match(/:([^\/]*)/g) || [] : the matches from position i on,
\* left to right, each match consumed before the scan goes on
RECURSIVE Matches(_, _)
Matches(s, i) ==
  IF i > Len(s) THEN <<>>
  ELSE IF s[i] = ":"
       THEN <<Slice(s, i, RunEnd(s, i))>> \o Matches(s, RunEnd(s, i) + 1)
       ELSE Matches(s, i + 1)

\* Array.from(new Set(xs)): the first occurrence of each element, in order
RECURSIVE Distinct(_)
Distinct(xs) ==
  IF xs = <<>> THEN <<>>
  ELSE LET front == Distinct(Slice(xs, 1, Len(xs) - 1))
           x == xs[Len(xs)]
       IN IF x \in Range(front) THEN front ELSE Append(front, x)

\* matches.map((match) => match.slice(1)), as a Set
PlaceholderKeys(endpoint) ==
  LET matches == Matches(endpoint, 1)
  IN Distinct([i \in DOMAIN matches |-> Slice(matches[i], 2, Len(matches[i]))])

\* a filter that stops at the first missing key
MissingParamsFirstOnly(endpoint, params) ==
  LET missing == SelectSeq(PlaceholderKeys(endpoint), LAMBDA key : ~HasKey(params, key))
  IN IF missing = <<>> THEN <<>> ELSE <<missing[1]>>

\* Array.from(keys).filter((key) => !(key in params))
MissingParams(endpoint, params) ==
  SelectSeq(PlaceholderKeys(endpoint), LAMBDA key : ~HasKey(params, key))

\* xs.join(", ")
RECURSIVE Join(_)
Join(xs) ==
  IF xs = <<>> THEN <<>>
  ELSE IF Len(xs) = 1 THEN xs[1]
       ELSE xs[1] \o <<",", " ">> \o Join(Tail(xs))

\* `"${missingParams.join(", ")}" not found in endpoint: ${endpoint}`
MissingMessage(missingParams, endpoint) ==
  <<"\"">> \o Join(missingParams) \o <<"\" not found in endpoint: ">> \o endpoint

\* the value assertHasAllParams throws, or Undefined when it returns
AssertHasAllParams(endpoint, params) ==
  LET missingParams == MissingParams(endpoint, params)
  IN IF Len(missingParams) > 0
     THEN Error("Error", MissingMessage(missingParams, endpoint))
     ELSE Undefined

(***************************************************************************)
(* The registry the model is run with, after the one of "Fetcher test"     *)
(* (src/mod.ts 117-144), with shorter names.                               *)
(***************************************************************************)
BaseUrl == "https://api.example.com"

EpList == <<"/", "u">>                                          \* "/u"
EpUser == <<"/", "u", "/", ":", "i", "d">>                      \* "/u/:id"
EpPair == <<"/", ":", "i", "d", "x", "/", ":", "i", "d">>       \* "/:idx/:id"
EpTwice == <<"/", ":", "i", "d", "x", "/", ":", "i", "d", "x">> \* "/:idx/:idx"

Endpoints == {EpList, EpUser, EpPair, EpTwice}

KeyId == <<"i", "d">>
KeyIdx == <<"i", "d", "x">>
ParamKeys == {KeyId, KeyIdx}

\* the methods registered for an endpoint
Methods(endpoint) == IF endpoint = EpUser THEN {"GET", "POST"} ELSE {"GET"}

\* api[endpoint][method]: the transform bundle; an absent transform is
\* Undefined
Api(endpoint, method) ==
  [param    |-> IF endpoint = EpList THEN Undefined ELSE String("stringify"),
   body     |-> IF method = "POST" THEN String("JSON.stringify") ELSE Undefined,
   response |-> IF endpoint = EpPair THEN String("isOk") ELSE String("text")]

Return(value) == [threw |-> FALSE, value |-> value]
Throw(error) == [threw |-> TRUE, value |-> error]

SymbolError == Error("TypeError", <<"Cannot convert a Symbol value to a string">>)
CyclicError == Error("TypeError", <<"Converting circular structure to JSON">>)
BodyUsedError == Error("TypeError", <<"Body already consumed">>)
NetworkError == Error("TypeError", <<"error sending request">>)

\* `${value}`
TemplateString(value) ==
  IF value.t = "number" THEN NumberToString(value.v) ELSE value.v

\* the registered param transform:
\*   (param) => ({ k: `${param.k}`, ... }) for every key k of param
ParamTransform(api, param) ==
  IF \E i \in DOMAIN param.v : param.v[i][2] = Symbol
  THEN Throw(SymbolError)
  ELSE Return([i \in DOMAIN param.v |->
                 <<param.v[i][1], TemplateString(param.v[i][2])>>])

\* JSON.stringify of an object whose values are strings
RECURSIVE JsonMembers(_)
JsonMembers(entries) ==
  IF entries = <<>> THEN <<>>
  ELSE <<"\"">> \o entries[1][1] \o <<"\"", ":", "\"">> \o entries[1][2].v
       \o <<"\"">>
       \o (IF Len(entries) > 1 THEN <<",">> ELSE <<>>)
       \o JsonMembers(Tail(entries))

CyclicObject == [t |-> "object", v |-> <<>>, cyclic |-> TRUE]

\* the registered body transform: (body) => JSON.stringify(body)
BodyTransform(api, body) ==
  IF body = CyclicObject
  THEN Throw(CyclicError)
  ELSE Return(String(<<"{">> \o JsonMembers(body.v) \o <<"}">>))

Response(text, bodyUsed) == [t |-> "response", text |-> text, bodyUsed |-> bodyUsed]
Boolean(b) == [t |-> "boolean", v |-> b]

\* the registered response transforms:
\*   "text": (response) => response.text()
\*   "isOk": (response) => response.text().then((text) => text === "ok")
ResponseTransform(api, response) ==
  IF response.bodyUsed
  THEN Throw(BodyUsedError)
  ELSE IF api.response = String("isOk")
       THEN Return(Boolean(response.text = <<"o", "k">>))
       ELSE Return(String(response.text))

(***************************************************************************)
(* URL objects: origin, pathname and the list of search parameters.        *)
(***************************************************************************)
\* new URL(endpoint, baseUrl), for an endpoint that is an absolute path
NewURL(endpoint, baseUrl) ==
  [origin |-> baseUrl, pathname |-> endpoint, searchParams |-> <<>>]

\* url.pathname = p : a path always starts with "/"
SetPathname(url, p) ==
  [url EXCEPT !.pathname = IF p # <<>> /\ p[1] = "/" THEN p ELSE <<"/">> \o p]

\* url.searchParams.append(key, value)
SearchParamsAppend(url, key, value) ==
  [url EXCEPT !.searchParams = Append(@, <<key, value>>)]

(***************************************************************************)
(* class Fetcher (src/mod.ts 67-114).                                      *)
(*   init   the constructor's argument, { baseUrl, api }                   *)
(*   bound  the closures fetch(endpoint, method) has returned, each with   *)
(*          the url object it captured                                     *)
(*   invs   the invocations of those closures                              *)
(*   calls  the calls of the global fetch (the transport), in order        *)
(***************************************************************************)
FetcherInit ==
  [baseUrl |-> BaseUrl,
   api     |-> [e \in Endpoints |-> [m \in Methods(e) |-> Api(e, m)]]]

Init ==
  /\ init = FetcherInit
  /\ bound = <<>>
  /\ invs = <<>>
  /\ calls = <<>>

\* fetch(endpoint, method): const url = new URL(endpoint, this.init.baseUrl)
\* and the closure over it
Fetch(endpoint, method) ==
  /\ bound' = Append(bound, [endpoint |-> endpoint, method |-> method,
                             url |-> NewURL(endpoint, init.baseUrl)])
  /\ UNCHANGED <<init, invs, calls>>

\* the callback of Object.entries(param).forEach
SubstituteEntry(url, key, value) ==
  IF Includes(url.pathname, <<":">> \o key)
  THEN SetPathname(url, Replace(url.pathname, <<":">> \o key, value))
  ELSE SearchParamsAppend(url, key, value)

\* Object.entries(param).forEach(...), from entry i on
RECURSIVE ForEachEntry(_, _, _)
ForEachEntry(url, param, i) ==
  IF i > Len(param) THEN url
  ELSE ForEachEntry(SubstituteEntry(url, param[i][1], param[i][2]), param, i + 1)

\* { method, body, ...options }
RequestInitOptionsLast(options, method, body) ==
  [k \in DOMAIN options \cup {"method", "body"} |->
     IF k \in DOMAIN options THEN options[k]
     ELSE IF k = "method" THEN String(method)
     ELSE body]

\* { ...options, method, body }
RequestInit(options, method, body) ==
  [k \in DOMAIN options \cup {"method", "body"} |->
     IF k = "method" THEN String(method)
     ELSE IF k = "body" THEN body
     ELSE options[k]]

\* what one run of the closure's synchronous part leaves behind: the
\* captured url, whether it threw, the value thrown, and the request handed
\* to the transport (Undefined when fetch was not called)
Thrown(url, error) ==
  [url |-> url, threw |-> TRUE, error |-> error, request |-> Undefined]

Sent(url, requestInit) ==
  [url |-> url, threw |-> FALSE, error |-> Undefined,
   request |-> [t |-> "request", url |-> url, init |-> requestInit]]

\* lines 105-109: the body transform, then fetch(url, {...options, method, body})
BodyAndSend(api, method, url, args, options) ==
  IF args.body # Undefined /\ args.body # Null
  THEN LET body == BodyTransform(api, args.body)
       IN IF body.threw THEN Thrown(url, body.value)
          ELSE Sent(url, RequestInit(options, method, body.value))
  ELSE Sent(url, RequestInit(options, method, Undefined))

\* the closure without the assertion of line 102
CallUnchecked(api, endpoint, method, url, args, options) ==
  IF args.param # Undefined
  THEN LET param == ParamTransform(api, args.param)
       IN IF param.threw THEN Thrown(url, param.value)
          ELSE LET missing == AssertHasAllParams(endpoint, param.value)
               IN IF missing # Undefined THEN Thrown(url, missing)
                  ELSE BodyAndSend(api, method, ForEachEntry(url, param.value, 1),
                                   args, options)
  ELSE BodyAndSend(api, method, url, args, options)

\* lines 90-109: the synchronous part of the closure, run on the captured url
Call(api, endpoint, method, url, args, options) ==
  IF args.param # Undefined
  THEN LET param == ParamTransform(api, args.param)
       IN IF param.threw THEN Thrown(url, param.value)
          ELSE LET missing == AssertHasAllParams(endpoint, param.value)
               IN IF missing # Undefined THEN Thrown(url, missing)
                  ELSE BodyAndSend(api, method, ForEachEntry(url, param.value, 1),
                                   args, options)
  ELSE LET missing == AssertHasAllParams(endpoint, EmptyObject)
       IN IF missing # Undefined THEN Thrown(url, missing)
          ELSE BodyAndSend(api, method, url, args, options)

\* one url object kept for each endpoint and method
WrittenPerEndpoint(f) ==
  {g \in DOMAIN bound : /\ bound[g].endpoint = bound[f].endpoint
                        /\ bound[g].method = bound[f].method}

\* the closures that run on the url object of closure f: line 81 makes one
\* url object in each call of fetch, so f alone
Written(f) == {f}

\* options = {} : the default of the second parameter
OptionsOrDefault(options) ==
  IF options = Undefined THEN [k \in {} |-> Undefined] ELSE options

\* one invocation of the closure bound[f], up to the return of the promise
\* of fetch(...).then(response), or up to the exception
Invoke(f, args, options) ==
  /\ LET b == bound[f]
         api == init.api[b.endpoint][b.method]
         r == Call(api, b.endpoint, b.method, b.url, args,
                   OptionsOrDefault(options))
     IN /\ bound' = [g \in DOMAIN bound |->
                       IF g \in Written(f) THEN [bound[g] EXCEPT !.url = r.url]
                       ELSE bound[g]]
        /\ invs' = Append(invs,
                     [f |-> f, args |-> args, options |-> options,
                      outcome |-> IF r.threw THEN "threw" ELSE "pending",
                      result |-> r.error,
                      response |-> Undefined,
                      responded |-> 0])
        /\ calls' = IF r.threw THEN calls
                    ELSE Append(calls, [inv |-> Len(invs) + 1, request |-> r.request])
  /\ UNCHANGED init

\* the promise of fetch(url, ...) is fulfilled with `response`
TransportResolve(i, response) ==
  /\ invs[i].outcome = "pending"
  /\ invs[i].response = Undefined
  /\ invs' = [invs EXCEPT ![i].response = response]
  /\ UNCHANGED <<init, bound, calls>>

\* the promise of fetch(url, ...) is rejected: .then(response) passes the
\* reason on and does not call the response transform
TransportReject(i, reason) ==
  /\ invs[i].outcome = "pending"
  /\ invs[i].response = Undefined
  /\ invs' = [invs EXCEPT ![i].outcome = "rejected", ![i].result = reason]
  /\ UNCHANGED <<init, bound, calls>>

\* the promise of fetch(...) returned as it is, without .then(response)
SettledWithResponse(inv, r) ==
  [inv EXCEPT !.outcome = "fulfilled", !.result = inv.response]

\* the outcome of the promise .then(response) returns, from what the
\* response transform returns or throws
Settled(inv, r) ==
  [inv EXCEPT !.outcome = IF r.threw THEN "rejected" ELSE "fulfilled",
              !.result = r.value,
              !.responded = @ + 1]

\* .then(this.init.api[endpoint][method].response): the reaction to the
\* fulfilled promise of fetch
ThenResponse(i) ==
  /\ invs[i].outcome = "pending"
  /\ invs[i].response # Undefined
  /\ LET b == bound[invs[i].f]
         api == init.api[b.endpoint][b.method]
     IN invs' = [invs EXCEPT
                   ![i] = Settled(@, ResponseTransform(api, invs[i].response))]
  /\ UNCHANGED <<init, bound, calls>>

(***************************************************************************)
(* The callers' inputs.                                                    *)
(***************************************************************************)
RawValues == {Number(1), Number(2)}

\* objects with at most n distinct keys among ParamKeys, in every order,
\* with values among `values`
ParamObjects(n, values) ==
  {Object(es) : es \in
     {s \in UNION {[1..k -> ParamKeys \X values] : k \in 0..n} :
        \A i, j \in DOMAIN s : i # j => s[i][1] # s[j][1]}}

SymbolParam == Object(<<<<KeyId, Symbol>>>>)

\* args.param: omitted, or an object (Param extends Record<string, unknown>)
ParamArgs == {Undefined} \cup ParamObjects(MaxKeys, RawValues) \cup {SymbolParam}

\* the same, with one value
FewParamArgs ==
  {Undefined} \cup ParamObjects(MaxKeys, {Number(1)}) \cup {SymbolParam}

NameBody == Object(<<<<<<"n">>, String(<<"a">>)>>>>)       \* { n: "a" }

BodyArgs == {Undefined, Null, NameBody, CyclicObject}

\* options that also carry the fields the closure fixes
OverrideOptions ==
  [method |-> String("DELETE"), body |-> String(<<"x">>), headers |-> String("h")]

OptionArgs == {Undefined, OverrideOptions}

Responses == {Response(<<"o", "k">>, FALSE), Response(<<"n", "o">>, FALSE),
              Response(<<"o", "k">>, TRUE)}

\* Fetch<Api> (lines 56-65): args has the key param (body) only where the
\* bundle registers a param (body) transform
Accepts(f, args) ==
  LET api == init.api[bound[f].endpoint][bound[f].method]
  IN /\ api.param = Undefined => args.param = Undefined
     /\ api.body = Undefined => args.body = Undefined

FetchStep(n) ==
  /\ Len(bound) < n
  /\ \E e \in Endpoints : \E m \in Methods(e) : Fetch(e, m)

InvokeStep(params, bodies, options) ==
  /\ Len(invs) < MaxInvocations
  /\ \E f \in DOMAIN bound :
       \E p \in params, b \in bodies, o \in options :
         /\ Accepts(f, [param |-> p, body |-> b])
         /\ Invoke(f, [param |-> p, body |-> b], o)

ResolveStep == \E i \in DOMAIN invs : \E r \in Responses : TransportResolve(i, r)

RejectStep == \E i \in DOMAIN invs : TransportReject(i, NetworkError)

ThenStep == \E i \in DOMAIN invs : ThenResponse(i)

\* One closure, invoked with every kind of body and options, and the
\* transport settling in every order.
Next ==
  \/ FetchStep(MaxBoundAsync)
  \/ InvokeStep(FewParamArgs, BodyArgs, OptionArgs)
  \/ ResolveStep
  \/ RejectStep
  \/ ThenStep

Spec == Init /\ [][Next]_vars

\* Several closures, invoked with every param argument; what the transport
\* answers plays no part in the urls.
NextUrl ==
  \/ FetchStep(MaxBound)
  \/ InvokeStep(ParamArgs, {Undefined, CyclicObject}, {Undefined})

SpecUrl == Init /\ [][NextUrl]_vars

(***************************************************************************)
(* Vocabulary of the properties.                                           *)
(***************************************************************************)
\* s.split("/")
RECURSIVE Segments(_)
Segments(s) ==
  IF "/" \notin Range(s) THEN <<s>>
  ELSE LET i == CHOOSE i \in DOMAIN s :
                  s[i] = "/" /\ \A j \in 1..(i - 1) : s[j] # "/"
       IN <<Slice(s, 1, i - 1)>> \o Segments(Slice(s, i + 1, Len(s)))

\* the name a path segment holds: what follows its first colon
NameOf(seg) ==
  LET i == CHOOSE i \in DOMAIN seg :
             seg[i] = ":" /\ \A j \in 1..(i - 1) : seg[j] # ":"
  IN Slice(seg, i + 1, Len(seg))

\* the positions of the segments of a pattern that hold the placeholder `name`
PositionsOf(endpoint, name) ==
  LET segs == Segments(endpoint)
  IN {p \in DOMAIN segs : ":" \in Range(segs[p]) /\ NameOf(segs[p]) = name}

\* the placeholder set of an endpoint pattern: a colon followed by a name
\* that ends at the next "/" or at the end of the pattern
Placeholders(endpoint) ==
  LET segs == Segments(endpoint)
  IN {NameOf(segs[p]) : p \in {q \in DOMAIN segs : ":" \in Range(segs[q])}}

EndpointOf(i) == bound[invs[i].f].endpoint
MethodOf(i) == bound[invs[i].f].method
ApiOf(i) == init.api[EndpointOf(i)][MethodOf(i)]

\* the param transform was called and returned
ParamReturns(i) ==
  invs[i].args.param # Undefined => ~ParamTransform(ApiOf(i), invs[i].args.param).threw

\* the flat mapping of invocation i: what the param transform returns, the
\* empty mapping when args.param is omitted
MappingOf(i) ==
  IF invs[i].args.param = Undefined THEN EmptyObject
  ELSE ParamTransform(ApiOf(i), invs[i].args.param).value

\* the placeholders the mapping of invocation i does not cover
Uncovered(i) == Placeholders(EndpointOf(i)) \ Keys(MappingOf(i))

\* invocation i ended with the missing-parameter error
MissingParameterError(i) ==
  /\ invs[i].outcome = "threw"
  /\ invs[i].result.name = "Error"

\* the enumerations of a finite set, without repetition
Orders(set) ==
  {o \in [1..Cardinality(set) -> set] : \A a, b \in DOMAIN o : a # b => o[a] # o[b]}

\* the body transform was not called, or returned
BodyReturns(i) ==
  (invs[i].args.body # Undefined /\ invs[i].args.body # Null)
    => ~BodyTransform(ApiOf(i), invs[i].args.body).threw

\* the calls of the transport that invocation i made
CallsOf(i) == {c \in DOMAIN calls : calls[c].inv = i}

\* the request of invocation i, when it made one call
RequestOf(i) == calls[CHOOSE c \in DOMAIN calls : calls[c].inv = i].request

\* invocation i is the first one of its bound function
FirstOfItsFunction(i) == \A j \in 1..(i - 1) : invs[j].f # invs[i].f

\* the search parameters of a url that have the key k
ValuesOf(url, k) ==
  {url.searchParams[q][2] : q \in {r \in DOMAIN url.searchParams :
                                     url.searchParams[r][1] = k}}

NoRepeatedPlaceholder(endpoint) ==
  \A name \in Placeholders(endpoint) : Cardinality(PositionsOf(endpoint, name)) = 1

\* key k with value v went where it belongs in the url
SubstitutedOrQueried(endpoint, url, k, v) ==
  LET segs == Segments(url.pathname)
  IN IF k \in Placeholders(endpoint)
     THEN /\ \A p \in PositionsOf(endpoint, k) : p \in DOMAIN segs /\ segs[p] = v
          /\ ValuesOf(url, k) = {}
     ELSE v \in ValuesOf(url, k)

(***************************************************************************)
(* C2. Substitution versus query: on every invocation that hands a request *)
(* to the transport, the first and every later one, for every key k of the *)
(* mapping: if k is a placeholder of the endpoint pattern, the segment of   *)
(* the request's path at the placeholder's position is the value of k and  *)
(* k is no query parameter; otherwise k is a query parameter with that     *)
(* value.  Stated for the patterns that name no placeholder twice.         *)
(***************************************************************************)
SubstitutionVersusQuery ==
  \A i \in DOMAIN invs :
    (Cardinality(CallsOf(i)) = 1 /\ NoRepeatedPlaceholder(EndpointOf(i))) =>
      \A e \in DOMAIN MappingOf(i) :
        SubstitutedOrQueried(EndpointOf(i), RequestOf(i).url,
                             MappingOf(i)[e][1], MappingOf(i)[e][2])

\* the url a bound function obtained just now hands over for the arguments
\* of invocation i
FreshUrl(i) ==
  Call(ApiOf(i), EndpointOf(i), MethodOf(i),
       NewURL(EndpointOf(i), init.baseUrl),
       invs[i].args, OptionsOrDefault(invs[i].options)).request.url

(***************************************************************************)
(* C3. Invocations of one bound function never interfere: the url of every *)
(* request handed to the transport is the url a freshly obtained bound     *)
(* function hands over for the same arguments.                             *)
(***************************************************************************)
InvocationsIndependent ==
  \A c \in DOMAIN calls : calls[c].request.url = FreshUrl(calls[c].inv)

\* the leftmost segment that holds the placeholder
FirstPosition(endpoint, name) ==
  CHOOSE p \in PositionsOf(endpoint, name) :
    \A q \in PositionsOf(endpoint, name) : p <= q

(***************************************************************************)
(* C9. Duplicate placeholder names: when a pattern names a placeholder     *)
(* twice and the mapping has that name, validation succeeds, and the first *)
(* invocation of the bound function puts the value in the first segment    *)
(* that holds the placeholder, leaves the later ones as they are written   *)
(* and adds no query parameter of that name.                               *)
(***************************************************************************)
DuplicateFirstOnly ==
  \A i \in DOMAIN invs :
    (FirstOfItsFunction(i) /\ ParamReturns(i)) =>
      \A k \in Keys(MappingOf(i)) :
        Cardinality(PositionsOf(EndpointOf(i), k)) >= 2 =>
          /\ ~MissingParameterError(i)
          /\ Cardinality(CallsOf(i)) = 1 =>
               LET url == RequestOf(i).url
                   segs == Segments(url.pathname)
                   first == FirstPosition(EndpointOf(i), k)
               IN /\ Len(segs) = Len(Segments(EndpointOf(i)))
                  /\ segs[first] = Get(MappingOf(i), k)
                  /\ \A p \in PositionsOf(EndpointOf(i), k) \ {first} :
                       segs[p] = <<":">> \o k
                  /\ ValuesOf(url, k) = {}

(***************************************************************************)
(* C10. Failed invocations have no lasting effect: an invocation that ends *)
(* before the transport is called (validation fails, or the param or the   *)
(* body transform throws) leaves the url of every bound function as it was.*)
(***************************************************************************)
FailedInvocationLeavesUrl ==
  [][(Len(invs') = Len(invs) + 1 /\ invs'[Len(invs')].outcome = "threw")
       => bound' = bound]_vars

\* the url of bound function g after its own invocations among the first n
RECURSIVE OwnUrl(_, _)
OwnUrl(g, n) ==
  IF n = 0 THEN NewURL(bound[g].endpoint, init.baseUrl)
  ELSE IF invs[n].f = g
       THEN Call(ApiOf(n), EndpointOf(n), MethodOf(n), OwnUrl(g, n - 1),
                 invs[n].args, OptionsOrDefault(invs[n].options)).url
       ELSE OwnUrl(g, n - 1)

(***************************************************************************)
(* C8. Isolation between bound functions, and builder immutability: the    *)
(* url of every bound function is the one its own invocations alone leave  *)
(* behind, whatever the invocations of the other bound functions were, and *)
(* the builder's base url and registry are the ones it was built with.     *)
(***************************************************************************)
BoundFunctionsIsolated ==
  /\ init = FetcherInit
  /\ \A g \in DOMAIN bound : bound[g].url = OwnUrl(g, Len(invs))

\* two bound functions of the same endpoint and method, one invoked so that
\* its url changed, the other never invoked
BoundFunctionsIsolatedWitness ==
  \E f, g \in DOMAIN bound :
    /\ f # g
    /\ bound[f].endpoint = bound[g].endpoint
    /\ bound[f].method = bound[g].method
    /\ \E i \in DOMAIN invs : invs[i].f = f
    /\ \A i \in DOMAIN invs : invs[i].f # g
    /\ bound[f].url # NewURL(bound[f].endpoint, init.baseUrl)
    /\ bound[g].url = NewURL(bound[g].endpoint, init.baseUrl)

(***************************************************************************)
(* C4. Transport call count and ordering: an invocation whose mapping does *)
(* not cover the placeholders never calls the transport; an invocation     *)
(* that passes validation and whose transforms return calls it exactly     *)
(* once, however the call ends, with the url as the substitution of its    *)
(* mapping left it.                                                        *)
(***************************************************************************)
TransportCalledOnce ==
  \A i \in DOMAIN invs :
    /\ (ParamReturns(i) /\ Uncovered(i) # {}) => CallsOf(i) = {}
    /\ (ParamReturns(i) /\ Uncovered(i) = {} /\ BodyReturns(i)) =>
         /\ Cardinality(CallsOf(i)) = 1
         /\ RequestOf(i).url =
              ForEachEntry(OwnUrl(invs[i].f, i - 1), MappingOf(i), 1)

\* one invocation failed validation, another one substituted a placeholder,
\* called the transport and was rejected by it
TransportCalledOnceWitness ==
  /\ \E i \in DOMAIN invs :
       ParamReturns(i) /\ Uncovered(i) # {} /\ invs[i].outcome = "threw"
  /\ \E i \in DOMAIN invs :
       /\ invs[i].outcome = "rejected"
       /\ invs[i].result = NetworkError
       /\ Placeholders(EndpointOf(i)) # {}
       /\ Cardinality(CallsOf(i)) = 1

(***************************************************************************)
(* C5. Method and body fidelity: every request handed to the transport has *)
(* the method the bound function was obtained under, the body the body     *)
(* transform returned for args.body when args.body is neither omitted nor  *)
(* null and no body otherwise, whatever method and body the caller's       *)
(* options hold, and every other field of the options unchanged.           *)
(***************************************************************************)
MethodAndBodyFidelity ==
  \A c \in DOMAIN calls :
    LET i == calls[c].inv
        requestInit == calls[c].request.init
        options == OptionsOrDefault(invs[i].options)
        body == invs[i].args.body
    IN /\ DOMAIN requestInit = DOMAIN options \cup {"method", "body"}
       /\ requestInit.method = String(MethodOf(i))
       /\ requestInit.body = IF body # Undefined /\ body # Null
                             THEN BodyTransform(ApiOf(i), body).value
                             ELSE Undefined
       /\ \A k \in DOMAIN options \ {"method", "body"} : requestInit[k] = options[k]

\* a request made with options that hold a method and a body of their own,
\* once with a body argument and once with a null one
MethodAndBodyFidelityWitness ==
  /\ \E c \in DOMAIN calls :
       /\ invs[calls[c].inv].options = OverrideOptions
       /\ invs[calls[c].inv].args.body = NameBody
       /\ MethodOf(calls[c].inv) = "POST"
  /\ \E c \in DOMAIN calls :
       /\ invs[calls[c].inv].options = OverrideOptions
       /\ invs[calls[c].inv].args.body = Null

(***************************************************************************)
(* C6. Response mapping: the response transform is applied at most once,   *)
(* only to a response the transport resolved with, and the value a         *)
(* fulfilled invocation delivers is what the registered response transform *)
(* returns for that response.                                              *)
(***************************************************************************)
ResponseMapping ==
  \A i \in DOMAIN invs :
    /\ invs[i].responded <= 1
    /\ invs[i].responded = 1 => invs[i].response # Undefined
    /\ invs[i].outcome = "fulfilled" =>
         /\ invs[i].responded = 1
         /\ invs[i].response # Undefined
         /\ ~ResponseTransform(ApiOf(i), invs[i].response).threw
         /\ invs[i].result = ResponseTransform(ApiOf(i), invs[i].response).value

\* one invocation delivered what the transform made of the response "no",
\* and the transform of another one threw
ResponseMappingWitness ==
  /\ \E i \in DOMAIN invs :
       /\ invs[i].outcome = "fulfilled"
       /\ invs[i].response = Response(<<"n", "o">>, FALSE)
       /\ invs[i].result = Boolean(FALSE)
  /\ \E i \in DOMAIN invs :
       /\ invs[i].outcome = "rejected"
       /\ invs[i].responded = 1
       /\ invs[i].result = BodyUsedError

\* the error that arises first in invocation i, Undefined when none has
RaisedError(i) ==
  IF ~ParamReturns(i) THEN ParamTransform(ApiOf(i), invs[i].args.param).value
  ELSE IF Uncovered(i) # {}
       THEN AssertHasAllParams(EndpointOf(i), MappingOf(i))
  ELSE IF ~BodyReturns(i) THEN BodyTransform(ApiOf(i), invs[i].args.body).value
  ELSE IF invs[i].outcome = "rejected" /\ invs[i].response = Undefined
       THEN NetworkError
  ELSE IF invs[i].responded = 1 /\ ResponseTransform(ApiOf(i), invs[i].response).threw
       THEN ResponseTransform(ApiOf(i), invs[i].response).value
  ELSE Undefined

(***************************************************************************)
(* C7. Error propagation as rejection: the call of a bound function        *)
(* returns a promise in every case, and every error (validation, param,    *)
(* body or response transform, transport) rejects it with the error as it  *)
(* was raised.                                                             *)
(***************************************************************************)
ErrorsRejectThePromise ==
  \A i \in DOMAIN invs :
    /\ invs[i].outcome # "threw"
    /\ RaisedError(i) # Undefined =>
         invs[i].outcome = "rejected" /\ invs[i].result = RaisedError(i)

====
